---------------------------- MODULE Spec2Model ----------------------------
(***************************************************************************)
(* Model of src/app.py: the stock-coverage report.  One run of the script  *)
(* is a straight pipeline: read the uploaded workbook, validate the        *)
(* required columns, rename, filter, aggregate per branch (Filial), cut    *)
(* the coverage into bands (faixas), cross-tabulate the pending balance,   *)
(* normalise to percentages and export a three-sheet workbook.             *)
(*                                                                         *)
(* Numbers.  Coverage days and pending balances are decimals with three    *)
(* fractional digits, held as integer thousandths (10 days = 10000).       *)
(* Stock values, used only as weights, are whole currency units.           *)
(* Values that went through .round(2) are held as integer hundredths.      *)
(* Arithmetic is exact; binary floating-point error is not modelled.       *)
(***************************************************************************)
EXTENDS Integers, Sequences, FiniteSets, TLC

VARIABLES
    uploaded_file,      \* the file given to st.file_uploader (line 11)
    pc,                 \* position of the script
    df,                 \* the data frame (lines 16, 26, 34, 74)
    cobertura,          \* CoverageSummary (lines 46-56)
    resumo_valores,     \* BucketTable (lines 82-85)
    resumo_percentuais, \* PercentTable (lines 100-106)
    exibido,            \* tables already passed to st.dataframe
    download,           \* the workbook offered by st.download_button
    mensagem            \* what st.error / st.warning showed

vars == <<uploaded_file, pc, df, cobertura, resumo_valores,
          resumo_percentuais, exibido, download, mensagem>>

---------------------------------------------------------------------------
(* Bounds *)

MaxRows == 3

MaxSaldo == 5

---------------------------------------------------------------------------
(* Numbers *)

\* d days (or currency units) as thousandths
Mil(d) == d * 1000

Abs(x) == IF x < 0 THEN -x ELSE x

\* n/d rounded to the nearest integer, ties to the even one (d > 0)
RoundHalfEven(n, d) ==
    LET q == n \div d
        r == n % d
    IN  IF 2 * r < d THEN q
        ELSE IF 2 * r > d THEN q + 1
        ELSE IF q % 2 = 0 THEN q ELSE q + 1

\* .round(2) of the exact quotient num/den, where num/den is a quantity in
\* thousandths (den # 0): the result in hundredths.
Round2(num, den) ==
    LET n == IF den < 0 THEN -num ELSE num
        d == Abs(den)
    IN  RoundHalfEven(n, 10 * d)

\* (valor / total * 100) rounded up instead of to the nearest hundredth
Round2PctCeil(valor, total) ==
    LET n == IF total < 0 THEN -valor ELSE valor
        d == Abs(total)
        a == n * 100
    IN  (a \div d) * 100 + (-((-((a % d) * 100)) \div d))

\* (valor / total * 100).round(2), in hundredths of a percent (total # 0).
\* valor*10000/total is split as (valor*100 div total)*100 + rest, which is
\* the same number and keeps the products within TLC's integers.
Round2Pct(valor, total) ==
    LET n == IF total < 0 THEN -valor ELSE valor
        d == Abs(total)
        a == n * 100
    IN  (a \div d) * 100 + RoundHalfEven((a % d) * 100, d)

RECURSIVE SumSeq(_)
SumSeq(s) == IF s = << >> THEN 0 ELSE Head(s) + SumSeq(Tail(s))

Column(rows, c) == [i \in 1..Len(rows) |-> rows[i][c]]

Range(s) == {s[i] : i \in 1..Len(s)}

---------------------------------------------------------------------------
(* Validation and renaming, lines 18-31 *)

required_cols ==
    <<"Filial", "Cobertura Atual", "Vlr Estoque Tmk", "Mercadoria", "Saldo Pedido">>

\* line 20
TodasPresentes(columns) == \A i \in 1..Len(required_cols) : required_cols[i] \in columns

\* line 21: the list comprehension keeps the order of required_cols
missing_cols_Todas(columns) == required_cols

missing_cols(columns) == SelectSeq(required_cols, LAMBDA c : c \notin columns)

\* lines 26-31
renomear ==
    ("Vlr Estoque Tmk" :> "valor_estoque") @@ ("Cobertura Atual" :> "cobertura_dias")
    @@ ("Filial" :> "filial") @@ ("Saldo Pedido" :> "saldo_pedido")

NovoNome(c) == IF c \in DOMAIN renomear THEN renomear[c] ELSE c

RenameRow(r) ==
    [n \in {NovoNome(c) : c \in DOMAIN r} |-> r[CHOOSE c \in DOMAIN r : NovoNome(c) = n]]

Rename(d) ==
    [columns |-> {NovoNome(c) : c \in d.columns},
     rows    |-> [i \in 1..Len(d.rows) |-> RenameRow(d.rows[i])]]

---------------------------------------------------------------------------
(* Filter, line 34 *)

LinhaValidaNaoEstrita(r) == r["cobertura_dias"] >= 0 /\ r["saldo_pedido"] >= 0

LinhaValidaSoCobertura(r) == r["cobertura_dias"] > 0

LinhaValida(r) == r["cobertura_dias"] > 0 /\ r["saldo_pedido"] > 0

Filtrar(d) == [d EXCEPT !.rows = SelectSeq(d.rows, LinhaValida)]

---------------------------------------------------------------------------
(* Aggregation, lines 40-56 *)

Filiais(rows) == {rows[i]["filial"] : i \in 1..Len(rows)}

Grupo(rows, g) == SelectSeq(rows, LAMBDA r : r["filial"] = g)

\* np.average dividing by the number of values instead of the weights' sum
np_average_PorN(a, w) ==
    IF SumSeq(w) = 0
    THEN [raised |-> TRUE, num |-> 0, den |-> 1]
    ELSE [raised |-> FALSE,
          num |-> SumSeq([i \in 1..Len(a) |-> a[i] * w[i]]),
          den |-> Len(a)]

\* np.average(a, weights=w): ZeroDivisionError when the weights sum to
\* zero, else sum(a*w)/sum(w), kept as the exact fraction num/den.
np_average(a, w) ==
    LET scl == SumSeq(w)
    IN  IF scl = 0
        THEN [raised |-> TRUE, num |-> 0, den |-> 1]
        ELSE [raised |-> FALSE,
              num |-> SumSeq([i \in 1..Len(a) |-> a[i] * w[i]]),
              den |-> scl]

\* the same function without the try/except of lines 41-44
calcular_media_ponderada_SemExcept(grupo) ==
    np_average(Column(grupo, "cobertura_dias"), Column(grupo, "valor_estoque"))

\* lines 40-44
calcular_media_ponderada(grupo) ==
    LET r == np_average(Column(grupo, "cobertura_dias"), Column(grupo, "valor_estoque"))
    IN  IF r.raised THEN [raised |-> FALSE, num |-> 0, den |-> 1] ELSE r

\* lines 46-56: one row per filial of df; values in hundredths after .round(2)
LinhaCobertura(grupo) ==
    LET mp == calcular_media_ponderada(grupo)
    IN  [raised    |-> mp.raised,
         ponderada |-> IF mp.raised THEN 0 ELSE Round2(mp.num, mp.den),
         simples   |-> Round2(SumSeq(Column(grupo, "cobertura_dias")), Len(grupo)),
         total     |-> Round2(SumSeq(Column(grupo, "saldo_pedido")), 1)]

Cobertura(rows) == [g \in Filiais(rows) |-> LinhaCobertura(Grupo(rows, g))]

\* the three columns of the table (line 48)
TabelaCobertura(c) ==
    [g \in DOMAIN c |->
        [ponderada |-> c[g].ponderada, simples |-> c[g].simples, total |-> c[g].total]]

---------------------------------------------------------------------------
(* Bands, lines 74-79 *)

\* line 76; the last edge, np.inf, is the open end of the last band
bins == <<0, 15, 30, 45, 60>>

\* line 77
labels == <<"0-15 dias", "16-30 dias", "31-45 dias", "46-60 dias", "Mais de 60 dias">>

NaN == "NaN"

\* band i with right=True: (bins[i], bins[i+1]]
NaFaixaDireita(x, i) ==
    /\ Mil(bins[i]) < x
    /\ i < Len(bins) => x <= Mil(bins[i + 1])

\* band i without the np.inf edge: the last band does not exist
NaFaixaSemInf(x, i) ==
    /\ i < Len(bins)
    /\ Mil(bins[i]) <= x
    /\ x < Mil(bins[i + 1])

\* band i with right=False: [bins[i], bins[i+1])
NaFaixa(x, i) ==
    /\ Mil(bins[i]) <= x
    /\ i < Len(bins) => x < Mil(bins[i + 1])

\* pd.cut of one value: its label, or NaN outside every band
Cut(x) ==
    IF \E i \in 1..Len(bins) : NaFaixa(x, i)
    THEN labels[CHOOSE i \in 1..Len(bins) : NaFaixa(x, i)]
    ELSE NaN

ComFaixa(d) ==
    [columns |-> d.columns \cup {"faixa"},
     rows    |-> [i \in 1..Len(d.rows) |->
                    [c \in DOMAIN d.rows[i] \cup {"faixa"} |->
                        IF c = "faixa" THEN Cut(d.rows[i]["cobertura_dias"])
                        ELSE d.rows[i][c]]]]

---------------------------------------------------------------------------
(* Cross-tabulation, lines 82-85 *)

observed_True == TRUE

\* the default of groupby(observed=...) for a categorical key, line 82
observed == FALSE

\* the band columns of the unstacked table, in category order
ColunasFaixa(rows) ==
    SelectSeq(labels, LAMBDA l : ~observed \/ \E i \in 1..Len(rows) : rows[i]["faixa"] = l)

SomaFaixa(rows, g, l) ==
    SumSeq(Column(SelectSeq(rows, LAMBDA r : r["filial"] = g /\ r["faixa"] = l),
                  "saldo_pedido"))

\* the groups of the result: with observed=False every filial of the frame,
\* otherwise only those with a row in some band
FiliaisTabela(rows) ==
    IF observed THEN {rows[i]["filial"] : i \in {j \in 1..Len(rows) : rows[j]["faixa"] # NaN}}
    ELSE Filiais(rows)

\* lines 82-85
ResumoValores(rows) ==
    LET cols == ColunasFaixa(rows)
    IN  [columns |-> cols \o <<"TOTAL">>,
         data    |-> [g \in FiliaisTabela(rows) |->
                        [c \in Range(cols) \cup {"TOTAL"} |->
                            IF c = "TOTAL"
                            THEN SumSeq([i \in 1..Len(cols) |-> SomaFaixa(rows, g, cols[i])])
                            ELSE SomaFaixa(rows, g, c)]]]

---------------------------------------------------------------------------
(* Percentages, lines 100-106 *)

\* a float cell: a number v (hundredths), or nan / inf / -inf from x/0
Num(v) == [kind |-> "num", v |-> v]

PercentualCeil(valor, total) ==
    IF total = 0
    THEN [kind |-> IF valor = 0 THEN "nan" ELSE IF valor > 0 THEN "inf" ELSE "-inf", v |-> 0]
    ELSE Num(Round2PctCeil(valor, total))

\* line 103: (col / TOTAL * 100).round(2)
Percentual(valor, total) ==
    IF total = 0
    THEN [kind |-> IF valor = 0 THEN "nan" ELSE IF valor > 0 THEN "inf" ELSE "-inf", v |-> 0]
    ELSE Num(Round2Pct(valor, total))

\* lines 100-106
ResumoPercentuais(rv) ==
    LET cols == SelectSeq(rv.columns, LAMBDA c : c # "TOTAL")
    IN  [columns |-> cols,
         data    |-> [g \in DOMAIN rv.data |->
                        [c \in Range(cols) |-> Percentual(rv.data[g][c], rv.data[g]["TOTAL"])]]]

---------------------------------------------------------------------------
(* The script *)

Vazio == [x \in {} |-> 0]

SemFrame == [columns |-> {}, rows |-> << >>]

SemTabela == [columns |-> << >>, data |-> Vazio]

SemMensagem == [tipo |-> "nenhuma", faltam |-> << >>, texto |-> ""]

\* lines 119-121 ("Cobertura Media" stands for the accented sheet name)
sheet_names == <<"Cobertura Media", "Valores Absolutos", "Percentuais">>

\* line 13, else branch (lines 134-135)
SemArquivo ==
    /\ pc = "inicio"
    /\ ~uploaded_file.presente
    /\ mensagem' = [tipo |-> "warning", faltam |-> << >>,
                    texto |-> "Por favor, carregue um arquivo Excel"]
    /\ pc' = "fim"
    /\ UNCHANGED <<uploaded_file, df, cobertura, resumo_valores,
                   resumo_percentuais, exibido, download>>

\* lines 13-16
Ler ==
    /\ pc = "inicio"
    /\ uploaded_file.presente
    /\ df' = [columns |-> uploaded_file.columns, rows |-> uploaded_file.rows]
    /\ pc' = "validar"
    /\ UNCHANGED <<uploaded_file, cobertura, resumo_valores,
                   resumo_percentuais, exibido, download, mensagem>>

\* lines 20-23: st.error and st.stop; st.stop is not an Exception, so the
\* handler of line 130 does not run
ColunasFaltando ==
    /\ pc = "validar"
    /\ ~TodasPresentes(df.columns)
    /\ mensagem' = [tipo |-> "colunas", faltam |-> missing_cols(df.columns),
                    texto |-> "Arquivo invalido! Faltam as colunas"]
    /\ pc' = "fim"
    /\ UNCHANGED <<uploaded_file, df, cobertura, resumo_valores,
                   resumo_percentuais, exibido, download>>

\* lines 20, 26-31
Validar ==
    /\ pc = "validar"
    /\ TodasPresentes(df.columns)
    /\ df' = Rename(df)
    /\ pc' = "filtrar"
    /\ UNCHANGED <<uploaded_file, cobertura, resumo_valores,
                   resumo_percentuais, exibido, download, mensagem>>

\* line 34
Filter ==
    /\ pc = "filtrar"
    /\ df' = Filtrar(df)
    /\ pc' = "agregar"
    /\ UNCHANGED <<uploaded_file, cobertura, resumo_valores,
                   resumo_percentuais, exibido, download, mensagem>>

\* lines 46-68: an exception leaving the lambda ends the run in the handler
\* of line 130; otherwise the table is computed and shown
Agregar ==
    /\ pc = "agregar"
    /\ LET c == Cobertura(df.rows)
       IN  IF \E g \in DOMAIN c : c[g].raised
           THEN /\ mensagem' = [tipo |-> "processamento", faltam |-> << >>,
                                texto |-> "Weights sum to zero, can't be normalized"]
                /\ pc' = "fim"
                /\ UNCHANGED <<cobertura, exibido>>
           ELSE /\ cobertura' = TabelaCobertura(c)
                /\ exibido' = exibido \cup {"cobertura"}
                /\ pc' = "faixas"
                /\ UNCHANGED mensagem
    /\ UNCHANGED <<uploaded_file, df, resumo_valores, resumo_percentuais, download>>

\* lines 74-94
Faixas ==
    /\ pc = "faixas"
    /\ df' = ComFaixa(df)
    /\ resumo_valores' = ResumoValores(df'.rows)
    /\ exibido' = exibido \cup {"resumo_valores"}
    /\ pc' = "percentuais"
    /\ UNCHANGED <<uploaded_file, cobertura, resumo_percentuais, download, mensagem>>

\* lines 100-114
Percentuais ==
    /\ pc = "percentuais"
    /\ resumo_percentuais' = ResumoPercentuais(resumo_valores)
    /\ exibido' = exibido \cup {"resumo_percentuais"}
    /\ pc' = "exportar"
    /\ UNCHANGED <<uploaded_file, df, cobertura, resumo_valores, download, mensagem>>

\* lines 117-128
Exportar ==
    /\ pc = "exportar"
    /\ download' = [oferecido |-> TRUE,
                    names  |-> sheet_names,
                    sheets |-> <<cobertura, resumo_valores, resumo_percentuais>>]
    /\ pc' = "fim"
    /\ UNCHANGED <<uploaded_file, df, cobertura, resumo_valores,
                   resumo_percentuais, exibido, mensagem>>

\* the positions of the try block (lines 14-128) whose library calls can
\* raise: read_excel, the comparisons of the filter, groupby/apply, cut and
\* groupby, the division, the Excel writer.  The validation (membership
\* tests, st.error, rename) raises nothing.
PodeLancar == {"inicio", "filtrar", "agregar", "faixas", "percentuais", "exportar"}

\* lines 130-132: a statement of the try block raises (a file that is not a
\* workbook, a text cell in a numeric column, a writer failure); the handler
\* reports it and stops.  What was shown before stays shown.
Excecao ==
    /\ pc \in PodeLancar
    /\ uploaded_file.presente
    /\ mensagem' = [tipo |-> "processamento", faltam |-> << >>,
                    texto |-> "Ocorreu um erro ao processar o arquivo"]
    /\ pc' = "fim"
    /\ UNCHANGED <<uploaded_file, df, cobertura, resumo_valores,
                   resumo_percentuais, exibido, download>>

Next ==
    \/ SemArquivo
    \/ Ler
    \/ ColunasFaltando
    \/ Validar
    \/ Filter
    \/ Agregar
    \/ Faixas
    \/ Percentuais
    \/ Exportar
    \/ Excecao

---------------------------------------------------------------------------
(* Inputs *)

Linha(f, c, v, s) ==
    ("Filial" :> f) @@ ("Cobertura Atual" :> c) @@ ("Vlr Estoque Tmk" :> v)
    @@ ("Mercadoria" :> "M") @@ ("Saldo Pedido" :> s) @@ ("Obs" :> "x")

Colunas == Range(required_cols)

Restrita(r, cols) == [c \in cols |-> r[c]]

Tabelas(D) == UNION {[1..n -> D] : n \in 0..MaxRows}

Completo(D) ==
    {[presente |-> TRUE, columns |-> Colunas, rows |-> [i \in DOMAIN t |-> Restrita(t[i], Colunas)]]
        : t \in Tabelas(D)}

\* workbooks lacking a required column (with or without an extra one)
Incompletos ==
    {[presente |-> TRUE, columns |-> cols,
      rows |-> [i \in 1..n |-> Restrita(Linha("A", Mil(10), 100, Mil(50)), cols)]]
        : cols \in {c \in SUBSET (Colunas \cup {"Obs"}) : ~(Colunas \subseteq c)},
          n \in 0..MaxRows}

Nenhum == [presente |-> FALSE, columns |-> {}, rows |-> << >>]

InitCom(completos) ==
    /\ uploaded_file \in completos \cup Incompletos \cup {Nenhum}
    /\ pc = "inicio"
    /\ df = SemFrame
    /\ cobertura = Vazio
    /\ resumo_valores = SemTabela
    /\ resumo_percentuais = SemTabela
    /\ exibido = {}
    /\ download = [oferecido |-> FALSE, names |-> << >>, sheets |-> << >>]
    /\ mensagem = SemMensagem

\* rows covering every outcome of the filter, in two branches
LinhasGerais ==
    {Linha(f, p[1], 100, p[2]) :
        f \in {"A", "B"},
        p \in {<<Mil(-5), 5005>>, <<0, 5005>>, <<Mil(10), Mil(-20)>>, <<Mil(10), 0>>,
               <<0, 0>>, <<Mil(10), 5005>>, <<Mil(70), 5005>>}}

Init == InitCom(Completo(LinhasGerais))

Spec == Init /\ [][Next]_vars

\* rows on and next to every band edge in branch A, two edge rows in branch B
LinhasFaixas ==
    {Linha("A", c, 100, 5005) :
        c \in {1, 14999, Mil(15), 29999, Mil(30), 44999, Mil(45), 59999, Mil(60), Mil(75)}}
    \cup {Linha("B", Mil(15), 100, 5005), Linha("B", Mil(60), 100, 5005)}

InitFaixas == InitCom(Completo(LinhasFaixas))

SpecFaixas == InitFaixas /\ [][Next]_vars

\* rows with weights that are zero, cancel or differ; branch A includes the
\* rows (10, 100, 50) and (20, 300, 150) of the worked example
LinhasMedia ==
    {Linha("A", p[1], v, p[2]) :
        p \in {<<Mil(10), Mil(50)>>, <<Mil(20), Mil(150)>>, <<10125, Mil(50)>>},
        v \in {0, 100, 300, -100}}
    \cup {Linha("B", Mil(20), 300, Mil(150)), Linha("B", 10125, 100, Mil(50)),
          Linha("B", 10125, 0, Mil(50))}

InitMedia == InitCom(Completo(LinhasMedia))

SpecMedia == InitMedia /\ [][Next]_vars

\* one branch with one row per band; the five balances range over 0..MaxSaldo
ArquivosPercentuais ==
    {[presente |-> TRUE, columns |-> Colunas,
      rows |-> [i \in 1..5 |->
                  Restrita(Linha("A", <<Mil(10), Mil(20), Mil(40), Mil(50), Mil(70)>>[i],
                                 100, s[i]), Colunas)]]
        : s \in [1..5 -> 0..MaxSaldo]}

InitPercentuais == InitCom(ArquivosPercentuais)

SpecPercentuais == InitPercentuais /\ [][Next]_vars

---------------------------------------------------------------------------
(* Properties *)

\* the input rows a claim speaks of, by their canonical names
Entrada == Rename([columns |-> uploaded_file.columns, rows |-> uploaded_file.rows]).rows

Terminou == pc = "fim"

TodasExibidas == {"cobertura", "resumo_valores", "resumo_percentuais"}

NadaCalculado ==
    /\ cobertura = Vazio
    /\ resumo_valores = SemTabela
    /\ resumo_percentuais = SemTabela
    /\ exibido = {}
    /\ ~download.oferecido

\* C1: when a required column is absent from the table that was read, the
\* next step of the run reports a schema error whose list holds exactly the
\* absent required columns, each once; the frame is left as read (no row
\* filtered), no table is computed or shown, no workbook is offered, and the
\* run has ended: no step is ever taken from the end position.
C1_ErroDeColunas ==
    [][ /\ pc # "fim"
        /\ (pc = "validar" /\ ~(Colunas \subseteq df.columns)) =>
              /\ pc' = "fim"
              /\ mensagem'.tipo = "colunas"
              /\ Range(mensagem'.faltam) = Colunas \ uploaded_file.columns
              /\ Len(mensagem'.faltam) = Cardinality(Colunas \ uploaded_file.columns)
              /\ df' = [columns |-> uploaded_file.columns, rows |-> uploaded_file.rows]
              /\ NadaCalculado' ]_vars

C1_Witness ==
    /\ Terminou
    /\ mensagem.tipo = "colunas"
    /\ mensagem.faltam = <<"Cobertura Atual", "Saldo Pedido">>
    /\ "Obs" \in uploaded_file.columns
    /\ Len(uploaded_file.rows) = MaxRows
    /\ NadaCalculado

\* C2: a run that has ended either shows all three tables and offers the
\* workbook with no error, or reports an error and has shown no table and
\* offered no workbook.
C2_SemResultadosParciais ==
    (Terminou /\ uploaded_file.presente) =>
        \/ /\ mensagem.tipo = "nenhuma"
           /\ exibido = TodasExibidas
           /\ download.oferecido
        \/ /\ mensagem.tipo \in {"colunas", "processamento"}
           /\ exibido = {}
           /\ ~download.oferecido

\* the rows of the input with coverage <= 0 or pending balance <= 0 removed
SemNaoPositivas(rows) ==
    SelectSeq(rows, LAMBDA r : ~(r["cobertura_dias"] <= 0 \/ r["saldo_pedido"] <= 0))

\* the three tables the pipeline computes from renamed input rows
Relatorio(rows) ==
    LET f  == Filtrar([columns |-> {}, rows |-> rows])
        rv == ResumoValores(ComFaixa(f).rows)
    IN  [cobertura |-> TabelaCobertura(Cobertura(f.rows)),
         resumo_valores |-> rv,
         resumo_percentuais |-> ResumoPercentuais(rv)]

\* C3: every table the run has shown is the table the pipeline computes
\* from the same input with the rows of non-positive coverage or
\* non-positive pending balance removed.
C3_LinhasNaoPositivasNaoContam ==
    LET ref == Relatorio(SemNaoPositivas(Entrada))
    IN  /\ "cobertura" \in exibido => cobertura = ref.cobertura
        /\ "resumo_valores" \in exibido => resumo_valores = ref.resumo_valores
        /\ "resumo_percentuais" \in exibido => resumo_percentuais = ref.resumo_percentuais

C3_Witness ==
    /\ Terminou
    /\ download.oferecido
    /\ Len(Entrada) = 3
    /\ Entrada[1]["filial"] = "A" /\ Entrada[1]["cobertura_dias"] = 0
         /\ Entrada[1]["saldo_pedido"] > 0
    /\ Entrada[2]["filial"] = "A" /\ Entrada[2]["cobertura_dias"] > 0
         /\ Entrada[2]["saldo_pedido"] < 0
    /\ Entrada[3]["filial"] = "A" /\ LinhaValida(Entrada[3])
    /\ cobertura["A"].total = 500

\* the sum of the band cells of a group's row of the bucket table
SomaDasFaixas(g) ==
    LET cols == SelectSeq(resumo_valores.columns, LAMBDA c : c # "TOTAL")
    IN  SumSeq([i \in 1..Len(cols) |-> resumo_valores.data[g][cols[i]]])

\* C4: once the bucket table is shown it has the groups of the coverage
\* summary, and for each group the sum of its band cells, which is also its
\* TOTAL cell, is within 0.01 of the group's total pending balance in the
\* summary (10 thousandths; the summary's value is in hundredths).
C4_FaixasSomamOSaldoTotal ==
    "resumo_valores" \in exibido =>
        /\ DOMAIN resumo_valores.data = DOMAIN cobertura
        /\ \A g \in DOMAIN resumo_valores.data :
              /\ Abs(SomaDasFaixas(g) - 10 * cobertura[g].total) <= 10
              /\ resumo_valores.data[g]["TOTAL"] = SomaDasFaixas(g)

C4_Witness ==
    /\ Terminou
    /\ download.oferecido
    /\ \E g \in DOMAIN cobertura :
          /\ resumo_valores.data[g]["0-15 dias"] = 5005
          /\ resumo_valores.data[g]["Mais de 60 dias"] = 10010
          /\ resumo_valores.data[g]["TOTAL"] = 15015
          /\ cobertura[g].total = 1502

SomaDosPercentuais(g) ==
    SumSeq([i \in 1..Len(resumo_percentuais.columns) |->
               resumo_percentuais.data[g][resumo_percentuais.columns[i]].v])

\* C5: once the percent table is shown, for each group whose TOTAL is
\* positive every cell is a number and the cells sum to 100.00 within 0.02
\* (values in hundredths of a percent).
C5_PercentuaisSomamCem ==
    "resumo_percentuais" \in exibido =>
        \A g \in DOMAIN resumo_percentuais.data :
            resumo_valores.data[g]["TOTAL"] > 0 =>
                /\ \A c \in Range(resumo_percentuais.columns) :
                      resumo_percentuais.data[g][c].kind = "num"
                /\ Abs(SomaDosPercentuais(g) - 10000) <= 2

\* five occupied bands whose rounded percentages sum to 100.02
C5_Witness ==
    /\ Terminou
    /\ download.oferecido
    /\ "A" \in DOMAIN resumo_percentuais.data
    /\ \A i \in 1..Len(labels) : resumo_valores.data["A"][labels[i]] > 0
    /\ SomaDosPercentuais("A") = 10002

\* the groups of the filtered frame that have exactly one row
GruposDeUmaLinha == {g \in Filiais(df.rows) : Len(Grupo(df.rows, g)) = 1}

\* C6 as stated: the weighted mean of a single-row group is that row's
\* coverage exactly (the summary is in hundredths, the coverage in
\* thousandths).
C6_Original ==
    "cobertura" \in exibido =>
        \A g \in GruposDeUmaLinha :
            10 * cobertura[g].ponderada = Grupo(df.rows, g)[1]["cobertura_dias"]

\* C6 as amended: the weighted mean of a single-row group is that row's
\* coverage rounded to two decimals when the row's stock value is not zero,
\* and 0 when it is zero.
C6_MediaDeUmaLinha ==
    "cobertura" \in exibido =>
        \A g \in GruposDeUmaLinha :
            LET r == Grupo(df.rows, g)[1]
            IN  cobertura[g].ponderada =
                    IF r["valor_estoque"] = 0 THEN 0
                    ELSE RoundHalfEven(r["cobertura_dias"], 10)

\* a single-row group of weight -100 and coverage 10.125 shown as 10.12,
\* beside a single-row group of zero weight shown as 0
C6_Witness ==
    /\ Terminou
    /\ download.oferecido
    /\ GruposDeUmaLinha = {"A", "B"}
    /\ Grupo(df.rows, "A")[1]["cobertura_dias"] = 10125
    /\ Grupo(df.rows, "A")[1]["valor_estoque"] = -100
    /\ cobertura["A"].ponderada = 1012
    /\ Grupo(df.rows, "B")[1]["valor_estoque"] = 0
    /\ cobertura["B"].ponderada = 0

SomaPesos(g) == SumSeq(Column(Grupo(df.rows, g), "valor_estoque"))

SomaPonderada(g) ==
    LET grupo == Grupo(df.rows, g)
    IN  SumSeq([i \in 1..Len(grupo) |->
                   grupo[i]["cobertura_dias"] * grupo[i]["valor_estoque"]])

ExemploA ==
    <<[filial |-> "A", cobertura_dias |-> Mil(10), valor_estoque |-> 100,
       Mercadoria |-> "M", saldo_pedido |-> Mil(50)],
      [filial |-> "A", cobertura_dias |-> Mil(20), valor_estoque |-> 300,
       Mercadoria |-> "M", saldo_pedido |-> Mil(150)]>>

\* C7: the zero-weight error never ends a run; once the summary is shown,
\* each group's weighted mean is 0 when its stock values sum to zero and
\* otherwise sum(coverage * stock) / sum(stock) rounded to two decimals
\* (ties to even), whatever the other groups hold; and the rows
\* (10, 100, 50), (20, 300, 150) of group A give 17.50, 15.00 and 200.00.
C7_MediaPonderada ==
    /\ mensagem.texto # "Weights sum to zero, can't be normalized"
    /\ "cobertura" \in exibido =>
          /\ DOMAIN cobertura = Filiais(df.rows)
          /\ \A g \in DOMAIN cobertura :
                cobertura[g].ponderada =
                    IF SomaPesos(g) = 0 THEN 0
                    ELSE IF SomaPesos(g) > 0
                         THEN RoundHalfEven(SomaPonderada(g), 10 * SomaPesos(g))
                         ELSE RoundHalfEven(-SomaPonderada(g), -10 * SomaPesos(g))
          /\ Entrada = ExemploA =>
                cobertura["A"] = [ponderada |-> 1750, simples |-> 1500, total |-> 20000]

\* stock values 100 and -100 cancel in group A while group B is weighted
C7_Witness ==
    /\ Terminou
    /\ download.oferecido
    /\ Len(df.rows) = 3
    /\ Column(Grupo(df.rows, "A"), "valor_estoque") = <<100, -100>>
    /\ cobertura["A"].ponderada = 0
    /\ cobertura["A"].simples > 0
    /\ cobertura["B"].ponderada = 2000

\* the band the claim gives a coverage x > 0 (thousandths of a day)
FaixaEsperada(x) ==
    IF x < Mil(15) THEN "0-15 dias"
    ELSE IF x < Mil(30) THEN "16-30 dias"
    ELSE IF x < Mil(45) THEN "31-45 dias"
    ELSE IF x < Mil(60) THEN "46-60 dias"
    ELSE "Mais de 60 dias"

\* C8: once the bucket table is shown, every row of the filtered frame lies
\* in exactly one band, labelled as the left-closed intervals say, and each
\* cell of the table is the pending balance of the group's rows whose
\* coverage lies in that interval.
C8_FaixasFechadasAEsquerda ==
    "resumo_valores" \in exibido =>
        /\ \A i \in 1..Len(df.rows) :
              /\ Cardinality({k \in 1..Len(bins) : NaFaixa(df.rows[i]["cobertura_dias"], k)}) = 1
              /\ df.rows[i]["faixa"] = FaixaEsperada(df.rows[i]["cobertura_dias"])
        /\ \A g \in DOMAIN resumo_valores.data :
              \A k \in 1..Len(labels) :
                  resumo_valores.data[g][labels[k]] =
                      SumSeq(Column(SelectSeq(df.rows, LAMBDA r :
                                 /\ r["filial"] = g
                                 /\ FaixaEsperada(r["cobertura_dias"]) = labels[k]),
                             "saldo_pedido"))

\* rows on the edges 15, 30 and 60 counted in the band that starts there
C8_Witness ==
    /\ Terminou
    /\ download.oferecido
    /\ Column(df.rows, "cobertura_dias") = <<Mil(15), Mil(60), Mil(30)>>
    /\ Column(df.rows, "faixa") = <<"16-30 dias", "Mais de 60 dias", "31-45 dias">>
    /\ Column(df.rows, "filial") = <<"A", "A", "A">>
    /\ resumo_valores.data["A"]["0-15 dias"] = 0
    /\ resumo_valores.data["A"]["16-30 dias"] = 5005

\* C9: once the bucket table is shown its columns are the five band labels
\* in their fixed order followed by TOTAL; every group's row has a cell for
\* each of them; a band in which the group has no filtered row holds 0; and
\* TOTAL is the sum of the five band cells.
C9_TodasAsFaixas ==
    "resumo_valores" \in exibido =>
        /\ resumo_valores.columns = labels \o <<"TOTAL">>
        /\ \A g \in DOMAIN resumo_valores.data :
              /\ DOMAIN resumo_valores.data[g] = Range(labels) \cup {"TOTAL"}
              /\ \A k \in 1..Len(labels) :
                    (~\E i \in 1..Len(df.rows) :
                         /\ df.rows[i]["filial"] = g
                         /\ df.rows[i]["faixa"] = labels[k])
                      => resumo_valores.data[g][labels[k]] = 0
              /\ resumo_valores.data[g]["TOTAL"] =
                    SumSeq([k \in 1..Len(labels) |-> resumo_valores.data[g][labels[k]]])

\* two groups, only the first and the last band occupied, each by one group
C9_Witness ==
    /\ Terminou
    /\ download.oferecido
    /\ DOMAIN resumo_valores.data = {"A", "B"}
    /\ resumo_valores.data["A"]["0-15 dias"] > 0
    /\ resumo_valores.data["A"]["Mais de 60 dias"] = 0
    /\ resumo_valores.data["B"]["0-15 dias"] = 0
    /\ resumo_valores.data["B"]["Mais de 60 dias"] > 0
    /\ resumo_valores.data["B"]["31-45 dias"] = 0

\* the branches of the input with a row of positive coverage and balance
FiliaisComLinhaValida ==
    {Entrada[i]["filial"] : i \in {j \in 1..Len(Entrada) :
        Entrada[j]["cobertura_dias"] > 0 /\ Entrada[j]["saldo_pedido"] > 0}}

\* C10: each table that is shown has exactly the groups with at least one
\* input row of positive coverage and positive balance; every TOTAL of the
\* bucket table is strictly positive; and every percent cell is a number
\* (no division by zero took place).
C10_TotalPositivo ==
    /\ "cobertura" \in exibido => DOMAIN cobertura = FiliaisComLinhaValida
    /\ "resumo_valores" \in exibido =>
          /\ DOMAIN resumo_valores.data = FiliaisComLinhaValida
          /\ \A g \in DOMAIN resumo_valores.data : resumo_valores.data[g]["TOTAL"] > 0
    /\ "resumo_percentuais" \in exibido =>
          /\ DOMAIN resumo_percentuais.data = FiliaisComLinhaValida
          /\ \A g \in DOMAIN resumo_percentuais.data :
                \A c \in Range(resumo_percentuais.columns) :
                    resumo_percentuais.data[g][c].kind = "num"

\* branch B has rows, all of them filtered out, and appears in no table
C10_Witness ==
    /\ Terminou
    /\ download.oferecido
    /\ Filiais(Entrada) = {"A", "B"}
    /\ \E i \in 1..Len(Entrada) :
          Entrada[i]["filial"] = "B" /\ Entrada[i]["cobertura_dias"] > 0
            /\ Entrada[i]["saldo_pedido"] = 0
    /\ DOMAIN cobertura = {"A"}
    /\ DOMAIN resumo_valores.data = {"A"}
    /\ DOMAIN resumo_percentuais.data = {"A"}

=============================================================================
